---- MODULE Spec2Model ----
(***************************************************************************)
(* A model of the recommendation engine of UnifiedRecommnedationEngine:   *)
(* the popularity scorer and the ranking engine of src/src/recommender.py *)
(* and the feedback simulator/adjuster of src/src/active_learning.py.     *)
(*                                                                         *)
(* Numbers.  The program computes scores in float64.  The model keeps a   *)
(* score as an integer count of 1/ScoreScale units (1.0 = ScoreScale), so *)
(* 0.1, 0.05, 0.03, 0.2 and -0.25 are exact; a quotient is rounded down   *)
(* to that grid.  Float rounding error itself is not modelled.            *)
(*                                                                         *)
(* Text.  A Python str is a sequence of one-character strings over Chars. *)
(***************************************************************************)
EXTENDS Integers, Sequences, FiniteSets, TLC

VARIABLES
    datasets,     \* Recommender.datasets: the four tables (sequences of rows)
    embeddings,   \* Recommender.embeddings: per entity type, ids and vectors
    popularity,   \* Recommender.popularity: per asset type, id -> score
    last,         \* the last recommend_for_user call: arguments and outcome
    df,           \* the table handed to a stand-alone _compute_popularity_score
    pop,          \* ... and what that call returned
    heap,         \* the Recommendation dicts that exist, by address
    recList,      \* the caller's list of recommendations (addresses)
    learner,      \* the ActiveLearner: its weights and its feedback history
    sim,          \* the last simulate_feedback call: arguments and outcome
    app,          \* the last apply_feedback call: arguments and outcome
    previous,     \* the simulate_feedback call of the process run before this
    build,        \* a build_embeddings call: how far it is and what it holds
    run,          \* a generate_all_recommendations call and the run around it
    boosted       \* a user row and a candidate row, and the boost of the two

rankVars == <<datasets, embeddings, popularity, last>>
popVars == <<df, pop>>
fbVars == <<heap, recList, learner, sim, app>>
otherVars == <<previous, build, boosted>>
vars == <<datasets, embeddings, popularity, last, df, pop,
          heap, recList, learner, sim, app, previous, build, run, boosted>>

(***************************************************************************)
(* Bounds of the model.                                                    *)
(***************************************************************************)
MaxAssets == 2     \* rows per asset table
MaxTopN == 2       \* largest top_n argument tried
MaxPool == 2       \* rows of a table scored stand-alone
MaxRecs == 2       \* recommendations in the caller's list
MaxFeedback == 2   \* feedback events handed to apply_feedback
MaxDocs == 2       \* rows of the users and of the events table when embedding
MaxTagLen == 3     \* characters of a tags string when boosting

(***************************************************************************)
(* Units.                                                                  *)
(***************************************************************************)
ScoreScale == 100 * 1000       \* model units per 1.0
CosineGrid == 10 * 10          \* cosine similarity is kept to 1/CosineGrid

Max2(a, b) == IF a >= b THEN a ELSE b

(***************************************************************************)
(* Python str operations used by the program.                              *)
(***************************************************************************)
Chars == {"a", "i", "b", "B", " ", ";"}

\* str.lower(), character by character
LowerChar(c) == IF c = "B" THEN "b" ELSE c

lower(s) == [k \in 1..Len(s) |-> LowerChar(s[k])]

\* s.split(sep): every piece between separators, empty pieces kept
RECURSIVE split(_, _)
split(s, sep) ==
    IF s = <<>> THEN << <<>> >>
    ELSE LET rest == split(Tail(s), sep)
         IN  IF Head(s) = sep
             THEN << <<>> >> \o rest
             ELSE << <<Head(s)>> \o Head(rest) >> \o Tail(rest)

\* s.split(): pieces between runs of whitespace, no empty piece
split_ws(s) == SelectSeq(split(s, " "), LAMBDA t : t # <<>>)

\* s.strip(): leading and trailing whitespace removed
RECURSIVE lstrip(_)
lstrip(s) == IF s # <<>> /\ Head(s) = " " THEN lstrip(Tail(s)) ELSE s

RECURSIVE rstrip(_)
rstrip(s) ==
    IF s # <<>> /\ s[Len(s)] = " " THEN rstrip(SubSeq(s, 1, Len(s) - 1)) ELSE s

strip(s) == rstrip(lstrip(s))

\* k in s, for two strs: k occurs in s as a contiguous run
contains(s, k) ==
    \E i \in 0..(Len(s) - Len(k)) : SubSeq(s, i + 1, i + Len(k)) = k

\* row.get(field, ""): the column's value, "" when the table has no such column
get(row, field) == IF field \in DOMAIN row THEN row[field] ELSE <<>>

Seq2Set(q) == {q[k] : k \in 1..Len(q)}

\* any(...) over a sequence of booleans
any(bs) == \E k \in 1..Len(bs) : bs[k]

(***************************************************************************)
(* _compute_popularity_score(df, id_col).  The id column is the field id  *)
(* of a row.  raw is kept in thousandths (base * 1000 + desc_len), which  *)
(* is exact; the result is in score units.                                 *)
(***************************************************************************)
\* the filter without the strip: a blank token counts
tag_base_no_strip(tags) ==
    Max2(1, Len(SelectSeq(split(tags, ";"), LAMBDA t : t # <<>>)))

\* line 24: max(1, len([t for t in tags.split(";") if t.strip()]))
tag_base(tags) ==
    Max2(1, Len(SelectSeq(split(tags, ";"), LAMBDA t : strip(t) # <<>>)))

\* lines 23-26 for one row, in thousandths
raw_score(row) ==
    tag_base(get(row, "tags")) * 1000 + Len(get(row, "description"))

\* lines 21-26: the dict after the loop; a later row of the same id overwrites
raw_scores(table) ==
    LET ids == {table[k].id : k \in 1..Len(table)}
        lastRow(i) == table[CHOOSE k \in 1..Len(table) :
                              /\ table[k].id = i
                              /\ \A m \in k+1..Len(table) : table[m].id # i]
    IN  [i \in ids |-> raw_score(lastRow(i))]

SetMin(S) == CHOOSE x \in S : \A y \in S : x <= y
SetMax(S) == CHOOSE x \in S : \A y \in S : x >= y

\* lines 28-36: min-max normalisation, only when the pool is not uniform
compute_popularity_score(table) ==
    LET scores == raw_scores(table)
        vals == {scores[i] : i \in DOMAIN scores}
    IN  IF vals = {} THEN scores
        ELSE LET vmin == SetMin(vals)
                 vmax == SetMax(vals)
             IN  IF vmax > vmin
                 THEN [i \in DOMAIN scores |->
                         ((scores[i] - vmin) * ScoreScale) \div (vmax - vmin)]
                 ELSE [i \in DOMAIN scores |-> scores[i] * (ScoreScale \div 1000)]

(***************************************************************************)
(* The inputs of a run: users and assets drawn from two small catalogues. *)
(* An entry pairs the columns the engine reads with the entity's TF-IDF   *)
(* vector (kept up to its positive scale: nnz and the cosine do not       *)
(* depend on the scale).                                                   *)
(***************************************************************************)
AssetTypes == {"events", "jobs", "posts"}

UserCatalog ==
    { [city |-> <<>>,    interests |-> <<>>,         vec |-> <<0, 0>>],
      [city |-> <<"b">>, interests |-> <<"a", "i">>, vec |-> <<1, 0>>],
      [city |-> <<"B">>, interests |-> <<"a", "i">>, vec |-> <<0, 0>>] }

AssetCatalog ==
    { [city |-> <<"B">>, category |-> <<"i", " ", "b">>,
       tags |-> <<"b", ";", " ", "a">>, text |-> <<"a", "b">>, vec |-> <<1, 1>>],
      [city |-> <<"a">>, category |-> <<"a", " ", "b">>,
       tags |-> <<"b">>, text |-> <<>>, vec |-> <<1, 0>>],
      [city |-> <<"b">>, category |-> <<>>,
       tags |-> <<>>, text |-> <<"a">>, vec |-> <<0, 1>>] }

\* the orders of n positions
IdOrders(n) == {f \in [1..n -> 1..n] : \A a, b \in 1..n : f[a] = f[b] => a = b}

\* a users.csv row
UserRow(i, c) == [id |-> i, city |-> c.city, interests |-> c.interests]

\* an events.csv or jobs.csv row has a description, a posts.csv row a content
AssetRow(t, i, c) ==
    IF t = "posts"
    THEN [id |-> i, city |-> c.city, category |-> c.category, tags |-> c.tags,
          content |-> c.text]
    ELSE [id |-> i, city |-> c.city, category |-> c.category, tags |-> c.tags,
          description |-> c.text]

\* users.csv: one row per catalogue entry, under these ids
UserIds == <<2, 3, 1>>

UserPick ==
    LET cold == CHOOSE c \in UserCatalog : c.interests = <<>>
        warm == CHOOSE c \in UserCatalog : c.vec # <<0, 0>>
        rest == CHOOSE c \in UserCatalog : c # cold /\ c # warm
    IN  <<cold, warm, rest>>

\* the rows of an asset table: up to MaxAssets catalogue entries ...
AssetPicks == UNION {[1..n -> AssetCatalog] : n \in 0..MaxAssets}

\* ... under the ids 1..n, ascending or descending down the table.
\* events.csv, jobs.csv and posts.csv hold the same rows under the same ids
\* (a call reads one of them only).
TableIds(n) == {[k \in 1..n |-> k], [k \in 1..n |-> n + 1 - k]}

Inputs ==
    UNION { { [assets |-> ap, aids |-> ao] : ao \in TableIds(Len(ap)) } :
            ap \in AssetPicks }

\* load_all(): the four tables
DatasetsOf(in) ==
    [t \in AssetTypes \cup {"users"} |->
        IF t = "users"
        THEN [k \in 1..Len(UserIds) |-> UserRow(UserIds[k], UserPick[k])]
        ELSE [k \in 1..Len(in.assets) |-> AssetRow(t, in.aids[k], in.assets[k])]]

\* build_embeddings(): per entity type the table's ids and, row for row, vectors
EmbeddingsOf(in) ==
    [t \in AssetTypes \cup {"users"} |->
        IF t = "users"
        THEN [ids |-> UserIds,
              vectors |-> [k \in 1..Len(UserIds) |-> UserPick[k].vec]]
        ELSE [ids |-> in.aids,
              vectors |-> [k \in 1..Len(in.assets) |-> in.assets[k].vec]]]

\* Recommender.__init__: one popularity table per asset type
PopularityOf(ds) == [t \in AssetTypes |-> compute_popularity_score(ds[t])]

(***************************************************************************)
(* Recommender.recommend_for_user(user_id, asset_type, top_n).            *)
(***************************************************************************)
Min2(a, b) == IF a <= b THEN a ELSE b

\* the position of x in a list: list.index(x)
index(list, x) == CHOOSE k \in 1..Len(list) :
                     list[k] = x /\ \A m \in 1..(k - 1) : list[m] # x

\* x in list
in_list(list, x) == \E k \in 1..Len(list) : list[k] = x

\* table.query("<id_col> == @x").iloc[0]: the first row of that id
first_row(table, x) ==
    table[CHOOSE k \in 1..Len(table) :
            table[k].id = x /\ \A m \in 1..(k - 1) : table[m].id # x]

\* the number of stored non-zero entries of a sparse row
nnz(v) == Cardinality({k \in 1..Len(v) : v[k] # 0})

RECURSIVE dot_from(_, _, _)
dot_from(u, v, k) ==
    IF k > Len(u) THEN 0 ELSE u[k] * v[k] + dot_from(u, v, k + 1)

dot(u, v) == dot_from(u, v, 1)

\* sklearn's cosine_similarity of two rows, on the grid, in score units; a
\* zero row is left zero by the normalisation, so its similarity is 0
cosine_similarity(u, v) ==
    LET d == dot(u, v)
        n == dot(u, u) * dot(v, v)
        g == CosineGrid * CosineGrid
    IN  IF n = 0 THEN 0
        ELSE (ScoreScale \div CosineGrid) *
                (CHOOSE c \in 0..CosineGrid :
                    c * c * n <= g * d * d /\ (c + 1) * (c + 1) * n > g * d * d)

\* line 59: the user vector has no stored entry
cold_start(user_vec) == nnz(user_vec) = 0

\* a lookup that never finds its key: every cold-start base score is the default
base_scores_no_key(emb, popu, user_vec, asset_type) ==
    LET entity_ids == emb[asset_type].ids
        entity_matrix == emb[asset_type].vectors
    IN  IF cold_start(user_vec)
        THEN [k \in 1..Len(entity_ids) |-> 0]
        ELSE [k \in 1..Len(entity_ids) |->
                cosine_similarity(user_vec, entity_matrix[k])]

\* lines 59-65: the base score of every candidate, in id-list order
base_scores(emb, popu, user_vec, asset_type) ==
    LET entity_ids == emb[asset_type].ids
        entity_matrix == emb[asset_type].vectors
    IN  IF cold_start(user_vec)
        THEN [k \in 1..Len(entity_ids) |->
                IF entity_ids[k] \in DOMAIN popu[asset_type]
                THEN popu[asset_type][entity_ids[k]] ELSE 0]
        ELSE [k \in 1..Len(entity_ids) |->
                cosine_similarity(user_vec, entity_matrix[k])]

\* line 61 and line 65
reason_of(user_vec) ==
    IF cold_start(user_vec) THEN "popularity fallback"
    ELSE "text-based similarity"

\* the three rules chained with elif: only the first that matches counts
boost_elif(user_row, row) ==
    LET user_city == lower(get(user_row, "city"))
        user_interests == lower(get(user_row, "interests"))
        cat == lower(get(row, "category"))
        city == lower(get(row, "city"))
        tags == lower(get(row, "tags"))
        cat_toks == SelectSeq(split_ws(cat), LAMBDA k : contains(user_interests, k))
        tag_toks == split(tags, ";")
    IN  IF user_city # <<>> /\ user_city = city THEN ScoreScale \div 10
        ELSE IF any([k \in 1..Len(cat_toks) |-> cat_toks[k] # <<>>])
        THEN ScoreScale \div 20
        ELSE IF any([k \in 1..Len(tag_toks) |->
                        contains(user_interests, strip(tag_toks[k]))])
        THEN (3 * ScoreScale) \div 100 ELSE 0

\* the tag rule on tokens that are not empty only
boost_named_tags(user_row, row) ==
    LET user_city == lower(get(user_row, "city"))
        user_interests == lower(get(user_row, "interests"))
        cat == lower(get(row, "category"))
        city == lower(get(row, "city"))
        tags == lower(get(row, "tags"))
        cat_toks == SelectSeq(split_ws(cat), LAMBDA k : contains(user_interests, k))
        tag_toks == split(tags, ";")
    IN  (IF user_city # <<>> /\ user_city = city THEN ScoreScale \div 10 ELSE 0)
      + (IF any([k \in 1..Len(cat_toks) |-> cat_toks[k] # <<>>])
         THEN ScoreScale \div 20 ELSE 0)
      + (IF any([k \in 1..Len(tag_toks) |->
                    /\ strip(tag_toks[k]) # <<>>
                    /\ contains(user_interests, strip(tag_toks[k]))])
         THEN (3 * ScoreScale) \div 100 ELSE 0)

\* lines 83-94: the boost of one candidate row for one user row
boost(user_row, row) ==
    LET user_city == lower(get(user_row, "city"))
        user_interests == lower(get(user_row, "interests"))
        cat == lower(get(row, "category"))
        city == lower(get(row, "city"))
        tags == lower(get(row, "tags"))
        cat_toks == SelectSeq(split_ws(cat), LAMBDA k : contains(user_interests, k))
        tag_toks == split(tags, ";")
    IN  (IF user_city # <<>> /\ user_city = city THEN ScoreScale \div 10 ELSE 0)
      + (IF any([k \in 1..Len(cat_toks) |-> cat_toks[k] # <<>>])
         THEN ScoreScale \div 20 ELSE 0)
      + (IF any([k \in 1..Len(tag_toks) |->
                    contains(user_interests, strip(tag_toks[k]))])
         THEN (3 * ScoreScale) \div 100 ELSE 0)

\* lines 68-96: final_scores = scores + boosts
final_scores(ds, emb, popu, user_id, asset_type) ==
    LET uidx == index(emb["users"].ids, user_id)
        user_vec == emb["users"].vectors[uidx]
        scores == base_scores(emb, popu, user_vec, asset_type)
        user_row == first_row(ds["users"], user_id)
        entity_ids == emb[asset_type].ids
    IN  [k \in 1..Len(entity_ids) |->
            scores[k] + boost(user_row, first_row(ds[asset_type], entity_ids[k]))]

\* the sort without the negation: ascending scores
argsort_asc(fs) ==
    { o \in IdOrders(Len(fs)) :
        \A a, b \in 1..Len(fs) : a < b => fs[o[a]] <= fs[o[b]] }

\* line 98: np.argsort(-final_scores).  The default sort kind is not stable,
\* so equal scores may come out in any order: every order that sorts the
\* negated scores ascending is a possible result.
argsort_desc(fs) ==
    { o \in IdOrders(Len(fs)) :
        \A a, b \in 1..Len(fs) : a < b => fs[o[a]] >= fs[o[b]] }

\* one label for every type
singular_generic(asset_type) == "asset"

\* asset_type[:-1]: the label without its last character
singular(asset_type) ==
    CASE asset_type = "events" -> "event"
      [] asset_type = "jobs" -> "job"
      [] asset_type = "posts" -> "post"

\* lines 99-108: one Recommendation per index of order[:top_n]
build_recs(emb, fs, order, user_id, asset_type, top_n) ==
    [k \in 1..Min2(top_n, Len(order)) |->
        [user_id |-> user_id,
         asset_id |-> emb[asset_type].ids[order[k]],
         asset_type |-> singular(asset_type),
         score |-> fs[order[k]],
         reason |-> reason_of(emb["users"].vectors[
                                  index(emb["users"].ids, user_id)])]]

\* line 50: the guard of the call
known_user(emb, user_id) == in_list(emb["users"].ids, user_id)

NoCall ==
    [user_id |-> 0, asset_type |-> "events", top_n |-> 0, raised |-> "none",
     scored |-> FALSE, final |-> <<>>, recs |-> <<>>]

\* the users a caller may name: those of the table and one that is in no table
UserIdArgs == {1, 2, 3, 4}

\* the error swallowed: an empty list comes back
unknown_user_empty_list(user_id, asset_type, top_n) ==
    [user_id |-> user_id, asset_type |-> asset_type, top_n |-> top_n,
     raised |-> "none", scored |-> FALSE, final |-> <<>>, recs |-> <<>>]

\* lines 50-51: raise KeyError, before any score is computed
unknown_user(user_id, asset_type, top_n) ==
    [user_id |-> user_id, asset_type |-> asset_type, top_n |-> top_n,
     raised |-> "KeyError", scored |-> FALSE, final |-> <<>>, recs |-> <<>>]

\* One call.  top_n is read by the slice of line 100 only, so it is drawn there.
recommend_for_user(user_id, asset_type) ==
    /\ IF ~known_user(embeddings, user_id)
       THEN \E top_n \in 0..MaxTopN :
               last' = unknown_user(user_id, asset_type, top_n)
       ELSE \E fs \in {final_scores(datasets, embeddings, popularity,
                                    user_id, asset_type)} :
            \E order \in argsort_desc(fs) :
            \E top_n \in 0..MaxTopN :
               last' = [user_id |-> user_id, asset_type |-> asset_type,
                        top_n |-> top_n, raised |-> "none",
                        scored |-> TRUE, final |-> fs,
                        recs |-> build_recs(embeddings, fs, order, user_id,
                                            asset_type, top_n)]
    /\ UNCHANGED <<datasets, embeddings, popularity>>
    /\ UNCHANGED <<popVars, fbVars, otherVars, run>>

Rank ==
    \E user_id \in UserIdArgs, asset_type \in AssetTypes :
        recommend_for_user(user_id, asset_type)

\* the state around a Recommender that is not the subject of a run
NoTable == [scored |-> FALSE, scores |-> <<>>]
NoSim ==
    [called |-> FALSE, recommendations |-> <<>>, positive_ratio |-> 0,
     negative_ratio |-> 0, draws |-> <<>>, raised |-> "none", returned |-> <<>>]
NoApp ==
    [called |-> FALSE, depth |-> 0, recs |-> <<>>, feedback_entries |-> <<>>,
     heap_before |-> <<>>, returned |-> <<>>]

\* ActiveLearner.__init__ with its default weights
NewLearner ==
    [positive_weight |-> ScoreScale \div 5,
     negative_weight |-> 0 - ScoreScale \div 4,
     feedback |-> <<>>]

\* build_embeddings not called
NoBuild ==
    [pc |-> "idle", texts |-> <<>>, fits |-> 0, corpus |-> <<>>,
     vocabulary |-> <<>>, raised |-> "none", embeddings |-> <<>>,
     log |-> <<>>, returned |-> FALSE]

\* generate_all_recommendations not called
NoRun ==
    [pc |-> "idle", sort_pref |-> <<>>, top_n |-> 0, at |-> 0,
     all_recs |-> [events |-> <<>>, jobs |-> <<>>, posts |-> <<>>],
     adjusted |-> [events |-> <<>>, jobs |-> <<>>, posts |-> <<>>]]

\* no boost computed on its own
NoBoost == [user_row |-> <<>>, row |-> <<>>, done |-> FALSE, boost |-> 0]

IdleOther ==
    previous = NoSim /\ build = NoBuild /\ run = NoRun /\ boosted = NoBoost
IdlePopularity == df = <<>> /\ pop = NoTable
IdleFeedback ==
    /\ heap = <<>>
    /\ recList = <<>>
    /\ learner = NewLearner
    /\ sim = NoSim
    /\ app = NoApp
IdleRanking ==
    /\ datasets = DatasetsOf([assets |-> <<>>, aids |-> <<>>])
    /\ embeddings = EmbeddingsOf([assets |-> <<>>, aids |-> <<>>])
    /\ popularity = PopularityOf(DatasetsOf([assets |-> <<>>, aids |-> <<>>]))
    /\ last = NoCall

Init ==
    /\ \E in \in Inputs :
          /\ datasets = DatasetsOf(in)
          /\ embeddings = EmbeddingsOf(in)
          /\ popularity = PopularityOf(DatasetsOf(in))
    /\ last = NoCall
    /\ IdlePopularity
    /\ IdleFeedback
    /\ IdleOther

Next == Rank

Spec == Init /\ [][Next]_vars

(***************************************************************************)
(* The popularity scorer on its own: a table is drawn, then scored.       *)
(***************************************************************************)
TagStrings ==
    { <<>>, <<"a">>, <<"a", ";", "i">>, <<" ", ";", "a">> }

Descriptions == { <<>>, <<"a">>, <<"a", "b">> }

\* rows of a table that has a description column, and of one that has none
RowsWith == {[tags |-> t, description |-> d] : t \in TagStrings, d \in Descriptions}
RowsWithout == {[tags |-> t] : t \in TagStrings}

WithId(kinds) ==
    [k \in 1..Len(kinds) |->
        IF "description" \in DOMAIN kinds[k]
        THEN [id |-> k, tags |-> kinds[k].tags, description |-> kinds[k].description]
        ELSE [id |-> k, tags |-> kinds[k].tags]]

PoolTables ==
    { WithId(kinds) :
        kinds \in UNION { [1..n -> RowsWith] \cup [1..n -> RowsWithout] :
                            n \in 0..MaxPool } }

ComputePopularity ==
    /\ pop' = [scored |-> TRUE, scores |-> compute_popularity_score(df)]
    /\ UNCHANGED <<df, rankVars, fbVars, otherVars, run>>

InitPopularity ==
    /\ df \in PoolTables
    /\ pop = NoTable
    /\ IdleRanking
    /\ IdleFeedback
    /\ IdleOther

NextPopularity == ComputePopularity

SpecPopularity == InitPopularity /\ [][NextPopularity]_vars

(***************************************************************************)
(* ActiveLearner (src/src/active_learning.py).  A random.random() value   *)
(* and a ratio are kept in halves: the draw 1 is 0.5, the ratio 3 is 1.5. *)
(* A Recommendation is a dict on the heap and a list holds addresses, so  *)
(* that a write through one reference shows through every other.          *)
(***************************************************************************)
Draws == {0, 1}
Ratios == {0 - 1, 0, 1, 2, 3}

\* the dicts a caller may hold: two of one key, one of the same ids under
\* another asset type, one of another user
RecCatalog ==
    { [user_id |-> 1, asset_id |-> 1, asset_type |-> "event",
       score |-> ScoreScale \div 10, reason |-> "text-based similarity"],
      [user_id |-> 1, asset_id |-> 1, asset_type |-> "event",
       score |-> ScoreScale \div 2, reason |-> "popularity fallback"],
      [user_id |-> 1, asset_id |-> 1, asset_type |-> "job",
       score |-> ScoreScale \div 2, reason |-> "text-based similarity"],
      [user_id |-> 2, asset_id |-> 1, asset_type |-> "event",
       score |-> (3 * ScoreScale) \div 10, reason |-> "text-based similarity"] }

RecLists == UNION {[1..n -> RecCatalog] : n \in 0..MaxRecs}

key_of(rec) == <<rec.user_id, rec.asset_type, rec.asset_id>>

\* feedback entries: (user_id, asset_type, asset_id, feedback)
FeedbackKeys == {key_of(r) : r \in RecCatalog} \cup {<<2, "job", 1>>}
FeedbackEntries == {<<k[1], k[2], k[3], f>> : k \in FeedbackKeys, f \in {0 - 1, 1}}
FeedbackLists == UNION {[1..n -> FeedbackEntries] : n \in 0..MaxFeedback}

\* the comparisons with <= in place of <
draw_outcome_le(r, positive_ratio, negative_ratio) ==
    IF r <= negative_ratio THEN 0 - 1
    ELSE IF r <= negative_ratio + positive_ratio THEN 1
    ELSE 0

\* lines 34-38: what one draw r decides: -1 dislike, 1 like, 0 no entry
draw_outcome(r, positive_ratio, negative_ratio) ==
    IF r < negative_ratio THEN 0 - 1
    ELSE IF r < negative_ratio + positive_ratio THEN 1
    ELSE 0

\* lines 32-38: the loop over the recommendations from position k on
RECURSIVE feedback_entries_from(_, _, _, _, _, _)
feedback_entries_from(h, recommendations, positive_ratio, negative_ratio, draws, k) ==
    IF k > Len(recommendations) THEN <<>>
    ELSE LET rec == h[recommendations[k]]
             f == draw_outcome(draws[k], positive_ratio, negative_ratio)
             rest == feedback_entries_from(h, recommendations, positive_ratio,
                                           negative_ratio, draws, k + 1)
         IN  IF f = 0 THEN rest
             ELSE << <<rec.user_id, rec.asset_type, rec.asset_id, f>> >> \o rest

\* simulate_feedback on a new learner (as main.run calls it), one draw per
\* recommendation, each one of the values random.random() may give
simulate_feedback_drawing(values, recommendations, positive_ratio, negative_ratio) ==
    /\ learner.feedback = <<>>
    /\ ~app.called
    /\ \E draws \in [1..Len(recommendations) -> values] :
       \E entries \in {feedback_entries_from(heap, recommendations, positive_ratio,
                                              negative_ratio, draws, 1)} :
          /\ learner' = [learner EXCEPT !.feedback = @ \o entries]
          /\ sim' = [called |-> TRUE, recommendations |-> recommendations,
                     positive_ratio |-> positive_ratio,
                     negative_ratio |-> negative_ratio, draws |-> draws,
                     raised |-> "none", returned |-> entries]
    /\ UNCHANGED <<heap, recList, app, rankVars, popVars, otherVars>>

\* ... with draws and ratios in halves
simulate_feedback(recommendations, positive_ratio, negative_ratio) ==
    simulate_feedback_drawing(Draws, recommendations, positive_ratio,
                              negative_ratio)

Simulate ==
    /\ \E positive_ratio \in Ratios, negative_ratio \in Ratios :
          simulate_feedback(recList, positive_ratio, negative_ratio)
    /\ UNCHANGED run

\* lines 49-52: the sum of the feedback of every key that has an entry
RECURSIVE fb_total(_, _, _)
fb_total(feedback_entries, key, k) ==
    IF k > Len(feedback_entries) THEN 0
    ELSE (IF <<feedback_entries[k][1], feedback_entries[k][2],
               feedback_entries[k][3]>> = key
          THEN feedback_entries[k][4] ELSE 0)
         + fb_total(feedback_entries, key, k + 1)

build_fb_map(feedback_entries) ==
    [key \in {<<feedback_entries[k][1], feedback_entries[k][2],
                feedback_entries[k][3]>> : k \in 1..Len(feedback_entries)} |->
        fb_total(feedback_entries, key, 1)]

\* a sum of zero taken for a like
liked_or_zero(total) == total >= 0

\* line 59: fb_map[key] > 0
liked(total) == total > 0

\* the dict written without the copy: the caller's own dict changes
store_in_place(h, a, new) == [heap |-> [h EXCEPT ![a] = new], addr |-> a]

\* lines 60-62 and 64-66: rec = rec.copy(), then the writes go to the copy
store_copy(h, a, new) == [heap |-> Append(h, new), addr |-> Len(h) + 1]

\* the negative branch without its floor: a score may go below zero
adjust_one_no_floor(h, a, fb_map, positive_weight, negative_weight) ==
    LET rec == h[a]
        key == key_of(rec)
    IN  IF key \in DOMAIN fb_map
        THEN IF liked(fb_map[key])
             THEN store_copy(h, a,
                    [rec EXCEPT !.score = @ + positive_weight,
                                !.reason = @ \o "; feedback adjusted (positive)"])
             ELSE store_copy(h, a,
                    [rec EXCEPT !.score = @ + negative_weight,
                                !.reason = @ \o "; feedback adjusted (negative)"])
        ELSE [heap |-> h, addr |-> a]

\* lines 56-66: the loop body for the recommendation at address a
adjust_one(h, a, fb_map, positive_weight, negative_weight) ==
    LET rec == h[a]
        key == key_of(rec)
    IN  IF key \in DOMAIN fb_map
        THEN IF liked(fb_map[key])
             THEN store_copy(h, a,
                    [rec EXCEPT !.score = @ + positive_weight,
                                !.reason = @ \o "; feedback adjusted (positive)"])
             ELSE store_copy(h, a,
                    [rec EXCEPT !.score = Max2(0, @ + negative_weight),
                                !.reason = @ \o "; feedback adjusted (negative)"])
        ELSE [heap |-> h, addr |-> a]

\* lines 54-68: the loop over recs from position k on; adjusted collects the
\* addresses appended so far
RECURSIVE adjust_from(_, _, _, _, _, _, _)
adjust_from(h, recs, fb_map, positive_weight, negative_weight, adjusted, k) ==
    IF k > Len(recs) THEN [heap |-> h, adjusted |-> adjusted]
    ELSE LET one == adjust_one(h, recs[k], fb_map, positive_weight, negative_weight)
         IN  adjust_from(one.heap, recs, fb_map, positive_weight, negative_weight,
                         Append(adjusted, one.addr), k + 1)

apply_feedback(recs, feedback_entries, depth) ==
    /\ \E out \in {adjust_from(heap, recs, build_fb_map(feedback_entries),
                                learner.positive_weight, learner.negative_weight,
                                <<>>, 1)} :
          /\ heap' = out.heap
          /\ app' = [called |-> TRUE, depth |-> depth, recs |-> recs,
                     feedback_entries |-> feedback_entries,
                     heap_before |-> heap, returned |-> out.adjusted]
    /\ UNCHANGED <<recList, learner, sim, rankVars, popVars, otherVars>>

\* the callers: main.run hands over what simulate_feedback returned; a direct
\* caller hands over any list of entries; and either may hand the result back
\* with the same entries once more
Apply ==
    \/ /\ ~app.called /\ sim.called
       /\ apply_feedback(recList, sim.returned, 1)
       /\ UNCHANGED run
    \/ /\ ~app.called /\ ~sim.called
       /\ \E feedback_entries \in FeedbackLists :
             apply_feedback(recList, feedback_entries, 1)
       /\ UNCHANGED run
    \/ /\ app.called /\ app.depth = 1
       /\ apply_feedback(app.returned, app.feedback_entries, 2)
       /\ UNCHANGED run

InitFeedback ==
    /\ \E rl \in RecLists :
          /\ heap = rl
          /\ recList = [k \in 1..Len(rl) |-> k]
    /\ learner = NewLearner
    /\ sim = NoSim
    /\ app = NoApp
    /\ IdleRanking
    /\ IdlePopularity
    /\ IdleOther

NextFeedback == Simulate \/ Apply

SpecFeedback == InitFeedback /\ [][NextFeedback]_vars

(***************************************************************************)
(* Two runs of the program over the same recommendations.  random is the   *)
(* process-wide generator of the Python runtime: nothing in the program    *)
(* seeds it (config.RANDOM_SEED is read nowhere), so at process start it   *)
(* is seeded from the operating system and its stream of values is any     *)
(* stream.  A run ends, the next process starts with a new ActiveLearner   *)
(* and makes the same call.                                                *)
(***************************************************************************)
\* process exit and restart: the call of the run that ended is kept for
\* comparison, the learner is built anew (main.py line 50)
Restart ==
    /\ sim.called
    /\ ~previous.called
    /\ previous' = sim
    /\ sim' = NoSim
    /\ learner' = NewLearner
    /\ UNCHANGED <<heap, recList, app, rankVars, popVars, build, run, boosted>>

\* the same call in the second run: same list, same ratios (main.py line 51)
SimulateAgain ==
    /\ previous.called
    /\ simulate_feedback(recList, previous.positive_ratio, previous.negative_ratio)
    /\ UNCHANGED run

\* the first run's call
SimulateFirst == ~previous.called /\ Simulate

InitSeed == InitFeedback

NextSeed == SimulateFirst \/ Restart \/ SimulateAgain

SpecSeed == InitSeed /\ [][NextSeed]_vars

(***************************************************************************)
(* build_embeddings (src/src/feature_builder.py).  The four text series    *)
(* are built, the vectorizer is fit on their concatenation, then the four  *)
(* series are transformed in the order of the dict literal.  A vector      *)
(* keeps, per vocabulary term, the number of times the term occurs in the  *)
(* text: the TF-IDF weight is that count times idf(t) > 0 over the row's   *)
(* norm, so it has the same length and the same zero entries.  The         *)
(* max_features cap (5000) is above every vocabulary of the model.         *)
(***************************************************************************)
EntityTypes == <<"users", "events", "jobs", "posts">>

\* " ".join(values)
RECURSIVE join(_)
join(values) ==
    IF values = <<>> THEN <<>>
    ELSE IF Len(values) = 1 THEN values[1]
    ELSE values[1] \o <<" ">> \o join(Tail(values))

\* lines 19-36 and 39-47: one text per row, indexed by the row's id
build_text(table, fields) ==
    [ids |-> [k \in 1..Len(table) |-> table[k].id],
     texts |-> [k \in 1..Len(table) |->
                  join([f \in 1..Len(fields) |-> get(table[k], fields[f])])]]

build_user_profile_text(users) ==
    build_text(users, <<"university", "degree", "interests", "bio", "city">>)

\* lines 81-83: the fields that make the text of each entity type
text_fields(t) ==
    CASE t = "events" -> <<"title", "description", "city">>
      [] t = "jobs" -> <<"title", "description", "company", "city">>
      [] t = "posts" -> <<"title", "content", "city">>

build_asset_text(table, t) == build_text(table, text_fields(t))

\* the default token pattern: runs of two or more word characters
tokenize(s) ==
    SelectSeq(split_ws([k \in 1..Len(s) |-> IF s[k] = ";" THEN " " ELSE s[k]]),
              LAMBDA w : Len(w) >= 2)

\* ngram_range (1, 2): the tokens, then each pair of neighbours
ngrams(toks) ==
    toks \o [k \in 1..(Len(toks) - 1) |-> toks[k] \o <<" ">> \o toks[k + 1]]

\* the analyzer: lowercase, tokenize, n-grams
analyze(doc) == ngrams(tokenize(lower(doc)))

\* the order of str: by code point
CharRank(c) ==
    CASE c = " " -> 1 [] c = ";" -> 2 [] c = "B" -> 3
      [] c = "a" -> 4 [] c = "b" -> 5 [] c = "i" -> 6

RECURSIVE LexLess(_, _)
LexLess(a, b) ==
    IF a = <<>> THEN b # <<>>
    ELSE IF b = <<>> THEN FALSE
    ELSE IF Head(a) = Head(b) THEN LexLess(Tail(a), Tail(b))
    ELSE CharRank(Head(a)) < CharRank(Head(b))

RECURSIVE sorted(_)
sorted(S) ==
    IF S = {} THEN <<>>
    ELSE LET m == CHOOSE x \in S : \A y \in S \ {x} : LexLess(x, y)
         IN  <<m>> \o sorted(S \ {m})

\* the series of the asset types alone, the user texts left out
concat_assets_only(texts) ==
    texts.events.texts \o texts.jobs.texts \o texts.posts.texts

\* line 85: pd.concat([user_texts, event_texts, job_texts, post_texts])
concat(texts) ==
    texts.users.texts \o texts.events.texts \o texts.jobs.texts
        \o texts.posts.texts

\* lines 50-57: fit on min_df = 1: every term of every text, in sorted order
fit_shared_vectorizer(corpus_texts) ==
    sorted(UNION {Seq2Set(analyze(corpus_texts[k])) : k \in 1..Len(corpus_texts)})

\* lines 60-65: one vector per text, one entry per vocabulary term; a term
\* that is not in the vocabulary is dropped
transform_texts(vocabulary, texts) ==
    [k \in 1..Len(texts) |->
        [j \in 1..Len(vocabulary) |->
            Cardinality({n \in 1..Len(analyze(texts[k])) :
                            analyze(texts[k])[n] = vocabulary[j]})]]

\* lines 80-83
BuildTexts ==
    /\ build.pc = "texts"
    /\ build' = [build EXCEPT
          !.texts = [users |-> build_user_profile_text(datasets["users"]),
                     events |-> build_asset_text(datasets["events"], "events"),
                     jobs |-> build_asset_text(datasets["jobs"], "jobs"),
                     posts |-> build_asset_text(datasets["posts"], "posts")],
          !.log = Append(@, "texts"),
          !.pc = "fit"]
    /\ UNCHANGED <<rankVars, popVars, fbVars, previous, run, boosted>>

\* lines 85-86; an empty vocabulary makes fit raise ValueError
Fit ==
    /\ build.pc = "fit"
    /\ \E corpus \in {concat(build.texts)} :
       \E vocabulary \in {fit_shared_vectorizer(corpus)} :
          build' = [build EXCEPT
             !.corpus = corpus,
             !.fits = @ + 1,
             !.vocabulary = vocabulary,
             !.raised = IF vocabulary = <<>> THEN "ValueError" ELSE "none",
             !.log = Append(@, "fit"),
             !.pc = IF vocabulary = <<>> THEN "failed" ELSE "users"]
    /\ UNCHANGED <<rankVars, popVars, fbVars, previous, run, boosted>>

\* the entry that follows t in the dict literal of lines 88-93
after(t) ==
    CASE t = "users" -> "events" [] t = "events" -> "jobs"
      [] t = "jobs" -> "posts" [] t = "posts" -> "return"

\* lines 89-92: one entry of the dict, with its transform_texts call
Transform(t) ==
    /\ build.pc = t
    /\ build' = [build EXCEPT
          !.embeddings = Append(@,
              [type |-> t, ids |-> build.texts[t].ids,
               texts |-> build.texts[t].texts,
               vectors |-> transform_texts(build.vocabulary,
                                           build.texts[t].texts)]),
          !.log = Append(@, t),
          !.pc = after(t)]
    /\ UNCHANGED <<rankVars, popVars, fbVars, previous, run, boosted>>

TransformNext == \E k \in 1..Len(EntityTypes) : Transform(EntityTypes[k])

\* line 95
Return ==
    /\ build.pc = "return"
    /\ build' = [build EXCEPT !.returned = TRUE, !.pc = "done"]
    /\ UNCHANGED <<rankVars, popVars, fbVars, previous, run, boosted>>

\* the texts of the tables: none, one short token only, one token, two tokens
DocCatalog ==
    { <<>>, <<"b", ";", "a", "i">>, <<"a", "B", " ", "a", "i">> }

DocLists(n) == UNION {[1..m -> DocCatalog] : m \in 1..n}

\* the four tables, each with a row at least: users and events of up to
\* MaxDocs rows, jobs and posts of one row
TextTables ==
    { [users |-> [k \in 1..Len(u) |-> [id |-> k, interests |-> u[k]]],
       events |-> [k \in 1..Len(e) |->
                     [id |-> Len(e) + 1 - k, title |-> e[k], city |-> <<"b">>]],
       jobs |-> [k \in 1..Len(j) |-> [id |-> k, company |-> j[k]]],
       posts |-> [k \in 1..Len(q) |-> [id |-> k, content |-> q[k]]]] :
        u \in DocLists(MaxDocs), e \in DocLists(MaxDocs),
        j \in {<< <<>> >>, << <<"b", ";", "a", "i">> >>},
        q \in {<< <<>> >>, << <<"a", "B", " ", "a", "i">> >>} }

InitEmbeddings ==
    /\ datasets \in TextTables
    /\ embeddings = EmbeddingsOf([assets |-> <<>>, aids |-> <<>>])
    /\ popularity = PopularityOf(DatasetsOf([assets |-> <<>>, aids |-> <<>>]))
    /\ last = NoCall
    /\ IdlePopularity
    /\ IdleFeedback
    /\ previous = NoSim
    /\ run = NoRun
    /\ boosted = NoBoost
    /\ build = [NoBuild EXCEPT !.pc = "texts"]

NextEmbeddings == BuildTexts \/ Fit \/ TransformNext \/ Return

SpecEmbeddings == InitEmbeddings /\ [][NextEmbeddings]_vars

(***************************************************************************)
(* Recommender.generate_all_recommendations, with stand-alone calls of     *)
(* recommend_for_user around it.  np.argsort is a function: one array      *)
(* always comes back in one order.  Which order equal scores take depends  *)
(* on the sort of the build, not on the call, so within a run it is a      *)
(* fixed unknown: sort_pref ranks the positions, and of two equal scores   *)
(* the position of lower rank comes first.  Two sorts are tried: one that  *)
(* keeps equal scores in table order and one that reverses them.           *)
(***************************************************************************)
\* line 111: the keys of all_recs, in dict order
RunTypes == <<"events", "jobs", "posts">>

\* line 98 under a sort whose tie order is pref
order_by(pref, fs) ==
    CHOOSE o \in argsort_desc(fs) :
        \A a, b \in 1..Len(fs) :
            (a < b /\ fs[o[a]] = fs[o[b]]) => pref[o[a]] < pref[o[b]]

\* lines 52-108 for a known user: the list the call returns (the sets of one
\* element bind the scores and the order once they are computed)
recommend(pref, ds, emb, popu, user_id, asset_type, top_n) ==
    CHOOSE recs \in UNION {
        { build_recs(emb, fs, order, user_id, asset_type, top_n) :
            order \in {order_by(pref, fs)} } :
        fs \in {final_scores(ds, emb, popu, user_id, asset_type)} } : TRUE

\* lines 112-113: the (uid, asset_type) pairs in loop order
loop_pairs(emb) ==
    [p \in 1..(Len(emb["users"].ids) * Len(RunTypes)) |->
        <<emb["users"].ids[((p - 1) \div Len(RunTypes)) + 1],
          RunTypes[((p - 1) % Len(RunTypes)) + 1]>>]

\* the list of a type overwritten by each call: only the last user's is kept
extend_replace(all_recs, asset_type, recs) ==
    [all_recs EXCEPT ![asset_type] = recs]

\* line 115: all_recs[asset_type].extend(recs)
extend(all_recs, asset_type, recs) ==
    [all_recs EXCEPT ![asset_type] = @ \o recs]

\* lines 112-115 from pair p on: each call's dicts are new on the heap and
\* the list of the type gets their addresses (the sets of one element bind
\* the list of a call, the heap and the dict once they are computed)
RECURSIVE generate_from(_, _, _, _, _, _, _, _)
generate_from(pref, ds, emb, popu, top_n, h, all_recs, p) ==
    IF p > Len(loop_pairs(emb)) THEN [heap |-> h, all_recs |-> all_recs]
    ELSE LET uid == loop_pairs(emb)[p][1]
             asset_type == loop_pairs(emb)[p][2]
         IN  CHOOSE out \in UNION {
                 { generate_from(pref, ds, emb, popu, top_n, h2, all2, p + 1) :
                     h2 \in {h \o recs},
                     all2 \in {extend(all_recs, asset_type,
                                      [k \in 1..Len(recs) |-> Len(h) + k])} } :
                 recs \in {recommend(pref, ds, emb, popu, uid, asset_type,
                                     top_n)} } : TRUE

\* lines 110-116
generate_all_recommendations(top_n) ==
    /\ run.pc = "generate"
    /\ \E out \in {generate_from(run.sort_pref, datasets, embeddings, popularity,
                                 top_n, heap,
                                 [events |-> <<>>, jobs |-> <<>>, posts |-> <<>>],
                                 1)} :
          /\ heap' = out.heap
          /\ run' = [run EXCEPT !.all_recs = out.all_recs, !.pc = "flatten"]
    /\ UNCHANGED <<rankVars, popVars, recList, learner, sim, app, otherVars>>

GenerateAll == generate_all_recommendations(run.top_n)

\* a stand-alone call, before or after, with the top_n of the run
RankAlone ==
    /\ \E user_id \in UserIdArgs, asset_type \in AssetTypes :
          IF ~known_user(embeddings, user_id)
          THEN last' = unknown_user(user_id, asset_type, run.top_n)
          ELSE \E fs \in {final_scores(datasets, embeddings, popularity,
                                       user_id, asset_type)} :
                  last' = [user_id |-> user_id, asset_type |-> asset_type,
                           top_n |-> run.top_n, raised |-> "none",
                           scored |-> TRUE, final |-> fs,
                           recs |-> build_recs(embeddings, fs,
                                               order_by(run.sort_pref, fs),
                                               user_id, asset_type, run.top_n)]
    /\ UNCHANGED <<datasets, embeddings, popularity>>
    /\ UNCHANGED <<popVars, fbVars, otherVars, run>>

\* the tables of a run: the rows of Inputs, under ascending ids
RunInputs == {in \in Inputs : in.aids = [k \in 1..Len(in.assets) |-> k]}

\* a Recommender is built, the sort has its tie order, a top_n is chosen
InitGenerate ==
    /\ \E in \in RunInputs :
          /\ datasets = DatasetsOf(in)
          /\ embeddings = EmbeddingsOf(in)
          /\ popularity = PopularityOf(DatasetsOf(in))
    /\ last = NoCall
    /\ IdlePopularity
    /\ IdleFeedback
    /\ previous = NoSim
    /\ build = NoBuild
    /\ boosted = NoBoost
    /\ \E pref \in TableIds(MaxAssets), top_n \in 0..MaxTopN :
          run = [NoRun EXCEPT !.pc = "generate", !.sort_pref = pref,
                              !.top_n = top_n]

NextGenerate == GenerateAll \/ RankAlone

SpecGenerate == InitGenerate /\ [][NextGenerate]_vars

(***************************************************************************)
(* main.run: generate_all_recommendations(TOP_N), the lists flattened, one *)
(* simulate_feedback over the flat list with the ratios 0.03 and 0.01,     *)
(* then apply_feedback per asset type with the whole feedback.  In a run   *)
(* a ratio and a draw are kept in hundredths, and a draw is one of 0.00,   *)
(* 0.01 and 0.04: one value for each of the intervals the ratios cut.      *)
(***************************************************************************)
TOP_N == 10

\* line 51: positive_ratio=0.03, negative_ratio=0.01
RunRatios == [positive_ratio |-> 3, negative_ratio |-> 1]
RunDraws == {0, 1, 4}

\* the users of a run: the first two rows of the user table
RunUserRows == <<1, 2>>

\* the tables of a run: the rows of an input, the first k as events and the
\* others as jobs, each table with ids from 1 on; no posts
RunDatasets(in, k) ==
    [t \in AssetTypes \cup {"users"} |->
        CASE t = "users" ->
               [u \in 1..Len(RunUserRows) |->
                   UserRow(UserIds[RunUserRows[u]], UserPick[RunUserRows[u]])]
          [] t = "events" ->
               [j \in 1..k |-> AssetRow(t, j, in.assets[j])]
          [] t = "jobs" ->
               [j \in 1..(Len(in.assets) - k) |-> AssetRow(t, j, in.assets[k + j])]
          [] t = "posts" -> <<>>]

\* build_embeddings over those tables: ids in row order, one vector per row
RunEmbeddings(in, k) ==
    [t \in AssetTypes \cup {"users"} |->
        CASE t = "users" ->
               [ids |-> [u \in 1..Len(RunUserRows) |-> UserIds[RunUserRows[u]]],
                vectors |-> [u \in 1..Len(RunUserRows) |->
                               UserPick[RunUserRows[u]].vec]]
          [] t = "events" ->
               [ids |-> [j \in 1..k |-> j],
                vectors |-> [j \in 1..k |-> in.assets[j].vec]]
          [] t = "jobs" ->
               [ids |-> [j \in 1..(Len(in.assets) - k) |-> j],
                vectors |-> [j \in 1..(Len(in.assets) - k) |->
                               in.assets[k + j].vec]]
          [] t = "posts" -> [ids |-> <<>>, vectors |-> <<>>]]

\* lines 46-48: flat_recs, the lists of all_recs one after the other
flat_recs(all_recs) == all_recs.events \o all_recs.jobs \o all_recs.posts

Flatten ==
    /\ run.pc = "flatten"
    /\ recList' = flat_recs(run.all_recs)
    /\ run' = [run EXCEPT !.pc = "simulate"]
    /\ UNCHANGED <<heap, learner, sim, app, rankVars, popVars, otherVars>>

\* lines 50-51
SimulateRun ==
    /\ run.pc = "simulate"
    /\ simulate_feedback_drawing(RunDraws, recList, RunRatios.positive_ratio,
                                 RunRatios.negative_ratio)
    /\ run' = [run EXCEPT !.pc = "apply", !.at = 1]

\* lines 55-57: one pass of the loop over all_recs.items()
ApplyRun ==
    /\ run.pc = "apply"
    /\ apply_feedback(run.all_recs[RunTypes[run.at]], sim.returned, 1)
    /\ run' = [run EXCEPT !.adjusted[RunTypes[run.at]] = app'.returned,
                          !.at = @ + 1,
                          !.pc = IF run.at = Len(RunTypes) THEN "done"
                                 ELSE "apply"]

InitPipeline ==
    /\ \E in \in RunInputs : \E k \in 0..Len(in.assets) :
          /\ datasets = RunDatasets(in, k)
          /\ embeddings = RunEmbeddings(in, k)
          /\ popularity = PopularityOf(RunDatasets(in, k))
    /\ last = NoCall
    /\ IdlePopularity
    /\ IdleFeedback
    /\ previous = NoSim
    /\ build = NoBuild
    /\ boosted = NoBoost
    /\ \E pref \in TableIds(MaxAssets) :
          run = [NoRun EXCEPT !.pc = "generate", !.sort_pref = pref,
                              !.top_n = TOP_N]

NextPipeline == GenerateAll \/ Flatten \/ SimulateRun \/ ApplyRun

SpecPipeline == InitPipeline /\ [][NextPipeline]_vars

(***************************************************************************)
(* The boost of lines 83-94 on its own: a user row and a candidate row     *)
(* are drawn, then the three rules are applied.                            *)
(***************************************************************************)
TagChars == {"a", ";", " "}

\* every str over chars of up to n characters
StringsUpTo(chars, n) == UNION {[1..m -> chars] : m \in 0..n}

BoostUserRows ==
    { [city |-> c, interests |-> i] :
        c \in {<<>>, <<"b">>, <<"B">>},
        i \in {<<>>, <<"a">>, <<"b">>} }

BoostRows ==
    { [city |-> c, category |-> g, tags |-> t] :
        c \in {<<>>, <<"b">>},
        g \in {<<>>, <<" ">>, <<"a">>, <<"b", " ", "a">>},
        t \in StringsUpTo(TagChars, MaxTagLen) }

Boost ==
    /\ ~boosted.done
    /\ boosted' = [boosted EXCEPT
          !.done = TRUE,
          !.boost = boost(boosted.user_row, boosted.row)]
    /\ UNCHANGED <<rankVars, popVars, fbVars, previous, build, run>>

InitBoost ==
    /\ \E user_row \in BoostUserRows, row \in BoostRows :
          boosted = [user_row |-> user_row, row |-> row, done |-> FALSE,
                     boost |-> 0]
    /\ IdleRanking
    /\ IdlePopularity
    /\ IdleFeedback
    /\ previous = NoSim
    /\ build = NoBuild
    /\ run = NoRun

NextBoost == Boost

SpecBoost == InitBoost /\ [][NextBoost]_vars

(***************************************************************************)
(* Properties of the ranking engine, checked under Spec.                   *)
(***************************************************************************)
Called == last # NoCall
Returned == Called /\ last.raised = "none"

CalledIds == embeddings[last.asset_type].ids
CalledUserRow == first_row(datasets["users"], last.user_id)
CalledUserVec ==
    embeddings["users"].vectors[index(embeddings["users"].ids, last.user_id)]
CalledRow(asset_id) == first_row(datasets[last.asset_type], asset_id)
ReturnedIds == {last.recs[k].asset_id : k \in 1..Len(last.recs)}

\* C1: a call for a known user returns at most top_n recommendations, their
\* scores non-increasing in list order, each score the final score of its
\* candidate, and no candidate left out has a strictly greater final score
\* than a returned one.
C1_AtMostTopNSortedByFinalScore ==
    Returned =>
        /\ Len(last.recs) <= last.top_n
        /\ \A k \in 1..(Len(last.recs) - 1) :
               last.recs[k].score >= last.recs[k + 1].score
        /\ \A k \in 1..Len(last.recs) :
               /\ in_list(CalledIds, last.recs[k].asset_id)
               /\ last.recs[k].score =
                      last.final[index(CalledIds, last.recs[k].asset_id)]
        /\ \A j \in 1..Len(CalledIds) :
               CalledIds[j] \notin ReturnedIds =>
                   \A k \in 1..Len(last.recs) :
                       last.final[j] <= last.recs[k].score

\* a call that returned one of two candidates and left out a lower-scored one
C1_Witness ==
    /\ Returned
    /\ Len(last.recs) = 1
    /\ \E j \in 1..Len(CalledIds) :
          CalledIds[j] \notin ReturnedIds /\ last.final[j] < last.recs[1].score

\* C2: two returned candidates of equal final score appear in ascending
\* asset-id order.
C2_TiesInAscendingAssetId ==
    Returned =>
        \A k \in 1..(Len(last.recs) - 1) :
            last.recs[k].score = last.recs[k + 1].score =>
                last.recs[k].asset_id < last.recs[k + 1].asset_id

\* C3: a call for a user_id that is not in the user space raises KeyError
\* before any score is computed and returns no recommendation, and no call
\* changes the embeddings, the datasets or the popularity tables.
C3_UnknownUserRaises ==
    /\ [](Called /\ ~known_user(embeddings, last.user_id) =>
              /\ last.raised = "KeyError"
              /\ ~last.scored
              /\ last.recs = <<>>)
    /\ [][ (last' # last /\ ~known_user(embeddings, last'.user_id)) =>
              UNCHANGED <<datasets, embeddings, popularity>> ]_vars

\* a call for the user that is in no table has raised
C3_Witness ==
    Called /\ ~known_user(embeddings, last.user_id) /\ last.raised = "KeyError"

\* the three boost rules, each stated on its own
CityMatch(user_row, row) ==
    /\ get(user_row, "city") # <<>>
    /\ lower(get(user_row, "city")) = lower(get(row, "city"))

CategoryOverlap(user_row, row) ==
    \E k \in Seq2Set(split_ws(lower(get(row, "category")))) :
        contains(lower(get(user_row, "interests")), k)

TagOverlap(user_row, row) ==
    \E t \in Seq2Set(split(lower(get(row, "tags")), ";")) :
        contains(lower(get(user_row, "interests")), strip(t))

RuleSum(user_row, row) ==
      (IF CityMatch(user_row, row) THEN ScoreScale \div 10 ELSE 0)
    + (IF CategoryOverlap(user_row, row) THEN ScoreScale \div 20 ELSE 0)
    + (IF TagOverlap(user_row, row) THEN (3 * ScoreScale) \div 100 ELSE 0)

\* C4: for a user whose vector is zero every returned recommendation has the
\* reason "popularity fallback" and its score less its boost is the
\* popularity score of the asset; for a user whose vector is not zero every
\* returned recommendation has the reason "text-based similarity".
C4_ColdStartUsesPopularity ==
    Returned =>
        \A k \in 1..Len(last.recs) :
            LET r == last.recs[k]
            IN  IF \A d \in 1..Len(CalledUserVec) : CalledUserVec[d] = 0
                THEN /\ r.reason = "popularity fallback"
                     /\ r.asset_id \in DOMAIN popularity[last.asset_type]
                     /\ r.score - RuleSum(CalledUserRow, CalledRow(r.asset_id))
                          = popularity[last.asset_type][r.asset_id]
                ELSE r.reason = "text-based similarity"

\* a zero-vector user got an asset of non-zero popularity, boosted
C4_Witness ==
    /\ Returned
    /\ \A d \in 1..Len(CalledUserVec) : CalledUserVec[d] = 0
    /\ \E k \in 1..Len(last.recs) :
          /\ popularity[last.asset_type][last.recs[k].asset_id] > 0
          /\ RuleSum(CalledUserRow, CalledRow(last.recs[k].asset_id)) > 0
          /\ last.recs[k].reason = "popularity fallback"

\* the base score of candidate j of the called type for a user vector
BaseOf(user_vec, j) ==
    base_scores(embeddings, popularity, user_vec, last.asset_type)[j]

\* C5: the final score of every candidate is its base score plus the sum of
\* the three rules (0.10 city, 0.05 category, 0.03 tags), each counted on
\* its own, so 0.18 when all three hold; and two users with the same city
\* and interests, one on the popularity branch and one on the similarity
\* branch, get the same boost for every candidate.
C5_FinalIsBasePlusRuleSum ==
    Returned =>
        /\ Len(last.final) = Len(CalledIds)
        /\ \A j \in 1..Len(CalledIds) :
               last.final[j] - BaseOf(CalledUserVec, j)
                   = RuleSum(CalledUserRow, CalledRow(CalledIds[j]))
        /\ \A u \in 1..Len(datasets["users"]) :
               LET other == datasets["users"][u]
                   ovec == embeddings["users"].vectors[u]
               IN  ( /\ lower(other.city) = lower(CalledUserRow.city)
                     /\ lower(other.interests) = lower(CalledUserRow.interests) )
                   => \A j \in 1..Len(CalledIds) :
                         final_scores(datasets, embeddings, popularity,
                                      other.id, last.asset_type)[j]
                             - BaseOf(ovec, j)
                           = last.final[j] - BaseOf(CalledUserVec, j)

\* a returned candidate on which all three rules hold, with a user of the
\* other branch that has the same city and interests
C5_Witness ==
    /\ Returned
    /\ \E k \in 1..Len(last.recs) :
          LET j == index(CalledIds, last.recs[k].asset_id)
          IN  last.recs[k].score - BaseOf(CalledUserVec, j)
                  = ScoreScale \div 10 + ScoreScale \div 20
                      + (3 * ScoreScale) \div 100
    /\ \E u \in 1..Len(datasets["users"]) :
          /\ lower(datasets["users"][u].city) = lower(CalledUserRow.city)
          /\ lower(datasets["users"][u].interests) = lower(CalledUserRow.interests)
          /\ cold_start(embeddings["users"].vectors[u]) # cold_start(CalledUserVec)

(***************************************************************************)
(* Properties of the popularity scorer, checked under SpecPopularity.      *)
(***************************************************************************)
\* the raw score of a row in thousandths: 1000 for each tag token that is not
\* blank (one at least), plus the length of the description
NonBlankTokens(tags) ==
    Cardinality({k \in 1..Len(split(tags, ";")) : strip(split(tags, ";")[k]) # <<>>})

RawOf(row) ==
    (IF NonBlankTokens(get(row, "tags")) >= 1
     THEN NonBlankTokens(get(row, "tags")) ELSE 1) * 1000
    + Len(get(row, "description"))

DfIds == {df[k].id : k \in 1..Len(df)}
DfRaw(i) == RawOf(first_row(df, i))
DfSpread == \E i, j \in DfIds : DfRaw(i) < DfRaw(j)

\* C6: the scorer returns one score per asset id.  If two assets differ in
\* raw score, every score is in [0,1], an asset of least raw score has 0,
\* one of greatest raw score has 1, and the order of raw scores is kept.  If
\* all raw scores are equal every score is the raw score itself, at least 1.
\* An empty table gives an empty mapping.
C6_PopularityMinMaxOrRaw ==
    pop.scored =>
        /\ DOMAIN pop.scores = DfIds
        /\ df = <<>> => pop.scores = <<>>
        /\ DfSpread =>
              /\ \A i \in DfIds : 0 <= pop.scores[i] /\ pop.scores[i] <= ScoreScale
              /\ \A i \in DfIds :
                    /\ (\A j \in DfIds : DfRaw(i) <= DfRaw(j)) => pop.scores[i] = 0
                    /\ (\A j \in DfIds : DfRaw(i) >= DfRaw(j))
                          => pop.scores[i] = ScoreScale
              /\ \A i, j \in DfIds :
                    /\ DfRaw(i) < DfRaw(j) => pop.scores[i] < pop.scores[j]
                    /\ DfRaw(i) = DfRaw(j) => pop.scores[i] = pop.scores[j]
        /\ ~DfSpread =>
              \A i \in DfIds :
                  /\ pop.scores[i] * 1000 = DfRaw(i) * ScoreScale
                  /\ pop.scores[i] >= ScoreScale

\* a scored table with a spread of raw scores, one of them from a blank token
C6_Witness ==
    /\ pop.scored
    /\ DfSpread
    /\ \E k \in 1..Len(df) : tag_base(df[k].tags) # Len(split(df[k].tags, ";"))

\* a scored table of two rows of equal raw score
C6_WitnessUniform ==
    pop.scored /\ Len(df) >= 2 /\ ~DfSpread

(***************************************************************************)
(* Properties of the feedback simulator and adjuster, checked under        *)
(* SpecFeedback.                                                           *)
(***************************************************************************)
SimRec(k) == heap[sim.recommendations[k]]

\* the positions whose draw falls under negative_ratio + positive_ratio or
\* under negative_ratio
Emitting ==
    {k \in 1..Len(sim.recommendations) :
        \/ sim.draws[k] < sim.negative_ratio
        \/ /\ sim.negative_ratio <= sim.draws[k]
           /\ sim.draws[k] < sim.negative_ratio + sim.positive_ratio}

\* the j-th emitting position in input order
NthEmitting(j) ==
    CHOOSE k \in Emitting : Cardinality({m \in Emitting : m <= k}) = j

\* C7: with one draw r per recommendation, the returned list holds, in input
\* order, one entry for every recommendation with r < negative_ratio (a
\* dislike, -1) or negative_ratio <= r < negative_ratio + positive_ratio (a
\* like, +1), none for any other, each entry with the user_id, asset_type and
\* asset_id of its recommendation.
C7_OneEntryPerDrawInOrder ==
    sim.called =>
        /\ Len(sim.draws) = Len(sim.recommendations)
        /\ Len(sim.returned) = Cardinality(Emitting)
        /\ Len(sim.returned) <= Len(sim.recommendations)
        /\ \A j \in 1..Len(sim.returned) :
               LET k == NthEmitting(j)
               IN  sim.returned[j] =
                     <<SimRec(k).user_id, SimRec(k).asset_type, SimRec(k).asset_id,
                       IF sim.draws[k] < sim.negative_ratio THEN 0 - 1 ELSE 1>>

\* a call that returned a dislike and then a like, the like from a draw equal
\* to negative_ratio
C7_Witness ==
    /\ sim.called
    /\ \E j \in 1..(Len(sim.returned) - 1) :
          sim.returned[j][4] = 0 - 1 /\ sim.returned[j + 1][4] = 1
    /\ \E k \in 1..Len(sim.draws) :
          sim.draws[k] = sim.negative_ratio /\ sim.positive_ratio > 0

\* ratios that are no probabilities: one outside [0,1], or a sum over 1
\* (in halves: 2 is 1.0)
InvalidRatios(positive_ratio, negative_ratio) ==
    \/ positive_ratio < 0 \/ positive_ratio > 2
    \/ negative_ratio < 0 \/ negative_ratio > 2
    \/ positive_ratio + negative_ratio > 2

\* C8: a call with a ratio outside [0,1] or with ratios that sum to more than
\* 1 is rejected with an error: it returns no entry and records none.
C8_InvalidRatiosRejected ==
    (sim.called /\ InvalidRatios(sim.positive_ratio, sim.negative_ratio)) =>
        /\ sim.raised # "none"
        /\ sim.returned = <<>>
        /\ learner.feedback = <<>>

AppIn(k) == app.heap_before[app.recs[k]]
AppOut(k) == heap[app.returned[k]]

\* the entries of the handed-over feedback that carry the key of a dict
EntriesOf(rec, f) ==
    {p \in 1..Len(app.feedback_entries) :
        /\ app.feedback_entries[p][1] = rec.user_id
        /\ app.feedback_entries[p][2] = rec.asset_type
        /\ app.feedback_entries[p][3] = rec.asset_id
        /\ app.feedback_entries[p][4] = f}

HasFeedback(rec) == EntriesOf(rec, 1) \cup EntriesOf(rec, 0 - 1) # {}
NetFeedback(rec) ==
    Cardinality(EntriesOf(rec, 1)) - Cardinality(EntriesOf(rec, 0 - 1))

\* C9: for a recommendation whose key has feedback, a sum of signals above
\* zero gives score + positive_weight and the reason with
\* "; feedback adjusted (positive)" appended; a sum of zero or less gives
\* max(0, score + negative_weight) and "; feedback adjusted (negative)".
C9_NetFeedbackDecidesBranch ==
    app.called =>
        \A k \in 1..Len(app.recs) :
            HasFeedback(AppIn(k)) =>
                IF NetFeedback(AppIn(k)) > 0
                THEN /\ AppOut(k).score = AppIn(k).score + learner.positive_weight
                     /\ AppOut(k).reason =
                          AppIn(k).reason \o "; feedback adjusted (positive)"
                ELSE /\ AppOut(k).score =
                          (IF AppIn(k).score + learner.negative_weight > 0
                           THEN AppIn(k).score + learner.negative_weight ELSE 0)
                     /\ AppOut(k).reason =
                          AppIn(k).reason \o "; feedback adjusted (negative)"

\* a +1 and a -1 on one key took the negative branch, without the clamp
C9_Witness ==
    /\ app.called
    /\ \E k \in 1..Len(app.recs) :
          /\ EntriesOf(AppIn(k), 1) # {}
          /\ NetFeedback(AppIn(k)) = 0
          /\ AppOut(k).score = AppIn(k).score + learner.negative_weight
          /\ AppOut(k).score > 0

AppliedTwice == app.called /\ app.depth = 2

\* C11 (as stated): after two applications of the same feedback, every
\* recommendation whose key has feedback has a score different from the score
\* after one application, moved further the same way: up for a sum above
\* zero, down otherwise.
C11_TwiceDiffersFromOnce ==
    AppliedTwice =>
        \A k \in 1..Len(app.recs) :
            HasFeedback(AppIn(k)) =>
                /\ AppOut(k).score # AppIn(k).score
                /\ IF NetFeedback(AppIn(k)) > 0
                   THEN AppOut(k).score > AppIn(k).score
                   ELSE AppOut(k).score < AppIn(k).score

\* C11 (amended): after two applications of the same feedback, a
\* recommendation whose key has a sum above zero has the score after one
\* application plus positive_weight; one whose sum is zero or less has
\* max(0, score after one + negative_weight), which is below the score after
\* one application when that score is above zero and equal to it (zero) when
\* the first application already reached the floor.  The reason gets the
\* suffix a second time.
C11_TwiceCompoundsDownToFloor ==
    AppliedTwice =>
        \A k \in 1..Len(app.recs) :
            HasFeedback(AppIn(k)) =>
                IF NetFeedback(AppIn(k)) > 0
                THEN /\ AppOut(k).score = AppIn(k).score + learner.positive_weight
                     /\ AppOut(k).score > AppIn(k).score
                     /\ AppOut(k).reason =
                          AppIn(k).reason \o "; feedback adjusted (positive)"
                ELSE /\ AppOut(k).score >= 0
                     /\ AppOut(k).score >= AppIn(k).score + learner.negative_weight
                     /\ AppOut(k).score = 0
                          \/ AppOut(k).score = AppIn(k).score + learner.negative_weight
                     /\ AppIn(k).score > 0 => AppOut(k).score < AppIn(k).score
                     /\ AppIn(k).score = 0 => AppOut(k).score = 0
                     /\ AppOut(k).reason =
                          AppIn(k).reason \o "; feedback adjusted (negative)"

\* two applications of a dislike: one score at the floor after the first and
\* still there after the second, another lowered by both
C11_Witness ==
    /\ AppliedTwice
    /\ \E k, m \in 1..Len(app.recs) :
          /\ HasFeedback(AppIn(k))
          /\ AppIn(k).score = 0
          /\ AppOut(k).score = 0
          /\ HasFeedback(AppIn(m))
          /\ AppOut(m).score < AppIn(m).score

(***************************************************************************)
(* Properties of two runs of the simulator, checked under SpecSeed.        *)
(***************************************************************************)
\* both runs have made their call, on the same list with the same ratios
\* (and under the same configuration, RANDOM_SEED included)
BothRuns ==
    /\ sim.called
    /\ previous.called
    /\ sim.recommendations = previous.recommendations
    /\ sim.positive_ratio = previous.positive_ratio
    /\ sim.negative_ratio = previous.negative_ratio

\* C12: two runs of simulate_feedback on the same recommendation list with
\* the same ratios and the same seed return the same sequence of feedback
\* entries.
C12_SameSeedSameFeedback ==
    BothRuns => sim.returned = previous.returned

(***************************************************************************)
(* Properties of build_embeddings, checked under SpecEmbeddings.           *)
(***************************************************************************)
\* the positions of the log at which a step happened
LogAt(step) == {k \in 1..Len(build.log) : build.log[k] = step}

\* the terms of the texts of one table, computed from the table itself
TermsOfTable(t) ==
    UNION { Seq2Set(analyze(
                IF t = "users" THEN build_user_profile_text(datasets[t]).texts[k]
                ELSE build_asset_text(datasets[t], t).texts[k])) :
            k \in 1..Len(datasets[t]) }

AllTerms == UNION {TermsOfTable(EntityTypes[k]) : k \in 1..Len(EntityTypes)}

\* the entry of the result for an entity type
SpaceOf(t) ==
    build.embeddings[CHOOSE k \in 1..Len(build.embeddings) :
                        build.embeddings[k].type = t]

\* C13: the vectorizer is fit once, on the texts of the users, events, jobs
\* and posts together; no transform happens before the fit; every space of
\* the result is built from that vocabulary, so every vector has the
\* vocabulary's length, and each space holds the ids of its table in row
\* order with one vector per id.
C13_OneFitBeforeTransforms ==
    /\ build.fits <= 1
    /\ Cardinality(LogAt("fit")) = build.fits
    /\ \A k \in 1..Len(EntityTypes) :
          \A p \in LogAt(EntityTypes[k]) :
              /\ build.fits = 1
              /\ \A f \in LogAt("fit") : f < p
    /\ build.fits = 1 =>
          /\ Len(build.corpus) =
                Len(datasets["users"]) + Len(datasets["events"])
                    + Len(datasets["jobs"]) + Len(datasets["posts"])
          /\ Seq2Set(build.vocabulary) = AllTerms
          /\ Len(build.vocabulary) = Cardinality(AllTerms)
    /\ \A e \in 1..Len(build.embeddings) :
          LET space == build.embeddings[e]
          IN  /\ Cardinality(LogAt(space.type)) = 1
              /\ space.ids = [k \in 1..Len(datasets[space.type]) |->
                                datasets[space.type][k].id]
              /\ Len(space.vectors) = Len(space.ids)
              /\ \A k \in 1..Len(space.vectors) :
                    /\ Len(space.vectors[k]) = Len(build.vocabulary)
                    /\ \A j \in 1..Len(build.vocabulary) :
                          space.vectors[k][j] > 0 <=>
                              build.vocabulary[j] \in
                                  Seq2Set(analyze(space.texts[k]))
    /\ build.returned =>
          /\ [e \in 1..Len(build.embeddings) |-> build.embeddings[e].type]
                = EntityTypes
          /\ build.fits = 1
          /\ build.raised = "none"

\* a returned result whose vocabulary holds a term of the events that no user
\* text has, and a user vector with an entry above zero
C13_Witness ==
    /\ build.returned
    /\ Len(build.vocabulary) >= 2
    /\ \E j \in 1..Len(build.vocabulary) :
          /\ build.vocabulary[j] \notin TermsOfTable("users")
          /\ build.vocabulary[j] \in TermsOfTable("events")
    /\ \E k \in 1..Len(SpaceOf("users").vectors) :
          \E j \in 1..Len(build.vocabulary) : SpaceOf("users").vectors[k][j] > 0

(***************************************************************************)
(* Properties of generate_all_recommendations, checked under SpecGenerate. *)
(***************************************************************************)
Generated == run.pc \notin {"idle", "generate"}

\* what a call for a pair returns, from the shared tables alone
ExpectedRecs(user_id, asset_type) ==
    recommend(run.sort_pref, datasets, embeddings, popularity, user_id,
              asset_type, run.top_n)

\* the number of recommendations of one call for a type
PerCall(t) == Min2(run.top_n, Len(embeddings[t].ids))

\* the part of all_recs[t] that the call for the u-th user added
Slice(t, u) ==
    [k \in 1..PerCall(t) |-> heap[run.all_recs[t][(u - 1) * PerCall(t) + k]]]

\* C14: no call changes the embeddings, the datasets or the popularity
\* tables; a stand-alone call for a pair returns what the tables alone
\* determine, whatever calls came before it; generate_all_recommendations
\* holds for every type the results of the calls for every user in user
\* order, each what a stand-alone call for that pair returns, made before or
\* after.
C14_RankingReadsOnly ==
    /\ [][UNCHANGED <<datasets, embeddings, popularity>>]_vars
    /\ [](Returned => last.recs = ExpectedRecs(last.user_id, last.asset_type))
    /\ [](Generated =>
            \A t \in AssetTypes :
                /\ Len(run.all_recs[t]) =
                      Len(embeddings["users"].ids) * PerCall(t)
                /\ \A u \in 1..Len(embeddings["users"].ids) :
                      Slice(t, u) = ExpectedRecs(embeddings["users"].ids[u], t))
    /\ []((Generated /\ Returned) =>
            last.recs = Slice(last.asset_type,
                              index(embeddings["users"].ids, last.user_id)))

\* after a generation, a stand-alone call for a user that is not the first
\* of the table returned two candidates of equal score
C14_Witness ==
    /\ Generated
    /\ Returned
    /\ index(embeddings["users"].ids, last.user_id) > 1
    /\ Len(last.recs) = 2
    /\ last.recs[1].score = last.recs[2].score

(***************************************************************************)
(* Properties of a run of main.run, checked under SpecPipeline.            *)
(***************************************************************************)
\* ids are unique within each table
UniqueIds ==
    \A t \in AssetTypes \cup {"users"} :
        \A i, j \in 1..Len(datasets[t]) :
            datasets[t][i].id = datasets[t][j].id => i = j

SameKey(r1, r2) ==
    /\ r1.user_id = r2.user_id
    /\ r1.asset_type = r2.asset_type
    /\ r1.asset_id = r2.asset_id

\* the generated dicts, in the order of the flat list
FlatGenerated == flat_recs(run.all_recs)

\* the entries of the simulated feedback with the key of entry i
SameKeyEntries(i) ==
    {j \in 1..Len(sim.returned) :
        /\ sim.returned[j][1] = sim.returned[i][1]
        /\ sim.returned[j][2] = sim.returned[i][2]
        /\ sim.returned[j][3] = sim.returned[i][3]}

\* the draw made for the dict at address a of the flat list
DrawOf(a) == sim.draws[index(sim.recommendations, a)]

\* C15: in a run over tables with unique ids, no two generated
\* recommendations have the same (user_id, asset_type, asset_id); the
\* simulated feedback has at most one entry per key, so every sum of a key
\* is +1 or -1; and at the end every recommendation of every type is
\* adjusted by its own draw alone: once down on a dislike, once up on a
\* like, and otherwise it is the dict that was generated.
C15_PipelineKeysUnique ==
    UniqueIds =>
        /\ Generated =>
              \A flat \in {FlatGenerated} :
                  \A i, j \in 1..Len(flat) :
                      SameKey(heap[flat[i]], heap[flat[j]]) => i = j
        /\ sim.called =>
              /\ sim.recommendations = FlatGenerated
              /\ \A i \in 1..Len(sim.returned) :
                    /\ SameKeyEntries(i) = {i}
                    /\ sim.returned[i][4] \in {1, 0 - 1}
        /\ run.pc = "done" =>
              \A n \in 1..Len(RunTypes) :
                  LET t == RunTypes[n]
                  IN  /\ Len(run.adjusted[t]) = Len(run.all_recs[t])
                      /\ \A k \in 1..Len(run.all_recs[t]) :
                            LET a == run.all_recs[t][k]
                                out == heap[run.adjusted[t][k]]
                            IN  \A r \in {DrawOf(a)} :
                                IF r < sim.negative_ratio
                                THEN /\ out.score =
                                          Max2(0, heap[a].score + learner.negative_weight)
                                     /\ out.reason = heap[a].reason
                                          \o "; feedback adjusted (negative)"
                                ELSE IF r < sim.negative_ratio + sim.positive_ratio
                                THEN /\ out.score =
                                          heap[a].score + learner.positive_weight
                                     /\ out.reason = heap[a].reason
                                          \o "; feedback adjusted (positive)"
                                ELSE run.adjusted[t][k] = a

\* a finished run with an event and a job of the same user and asset id, the
\* event liked and the job left alone, and another recommendation disliked
C15_Witness ==
    /\ run.pc = "done"
    /\ \E i, j, m \in 1..Len(FlatGenerated) :
          LET e == FlatGenerated[i]
              b == FlatGenerated[j]
              d == FlatGenerated[m]
          IN  /\ heap[e].asset_type = "event" /\ heap[b].asset_type = "job"
              /\ heap[e].user_id = heap[b].user_id
              /\ heap[e].asset_id = heap[b].asset_id
              /\ e \notin Seq2Set(run.adjusted.events)
              /\ b \in Seq2Set(run.adjusted.jobs)
              /\ \E k \in 1..Len(run.adjusted.events) :
                    heap[run.adjusted.events[k]].score =
                        heap[e].score + learner.positive_weight
              /\ DrawOf(d) < sim.negative_ratio

(***************************************************************************)
(* Properties of the boost rules, checked under SpecBoost.                 *)
(***************************************************************************)
\* the tags string has a ';'-delimited token that is empty or all spaces:
\* with a ';' put at both ends, two ';' have nothing but spaces between them
HasEmptyTagToken(tags) ==
    LET t == <<";">> \o tags \o <<";">>
    IN  \E i, j \in 1..Len(t) :
            /\ i < j
            /\ t[i] = ";" /\ t[j] = ";"
            /\ \A m \in (i + 1)..(j - 1) : t[m] = " "

\* the three parts of a boost: 0.10, 0.05 and 0.03 add up in one way only
CityPart(b) == b >= ScoreScale \div 10
CategoryPart(b) == (b % (ScoreScale \div 10)) >= ScoreScale \div 20
TagPart(b) == (b % (ScoreScale \div 20)) = (3 * ScoreScale) \div 100

\* C16: a candidate whose tags string has an empty ';'-delimited token after
\* trimming gets the 0.03 tag boost for every user, one with empty interests
\* included; a candidate with an empty category never gets the 0.05
\* category boost; a user with an empty city never gets the 0.10 city boost.
C16_EmptyTagTokenAlwaysBoosts ==
    boosted.done =>
        /\ HasEmptyTagToken(boosted.row.tags) => TagPart(boosted.boost)
        /\ boosted.row.category = <<>> => ~CategoryPart(boosted.boost)
        /\ boosted.user_row.city = <<>> => ~CityPart(boosted.boost)

\* a user with no interests and no city, a candidate with a doubled ';' in
\* its tags, no category and no city: the boost is the tag boost alone
C16_Witness ==
    /\ boosted.done
    /\ boosted.user_row.interests = <<>>
    /\ boosted.user_row.city = <<>>
    /\ boosted.row.category = <<>>
    /\ boosted.row.city = <<>>
    /\ \E k \in 1..(Len(boosted.row.tags) - 1) :
          boosted.row.tags[k] = ";" /\ boosted.row.tags[k + 1] = ";"
    /\ boosted.boost = (3 * ScoreScale) \div 100

====
